---- MODULE Spec2Model ----
(***************************************************************************)
(* A model of terratools/plot.py: the optional import of cartopy at module *)
(* load, layer_grid (validation, grid construction by nearest neighbour or *)
(* binned mean, hand-over to imshow) and spectral_heterogeneity (title and *)
(* optional PDF output).                                                   *)
(*                                                                         *)
(* Numbers.  The code computes in floating point; the model computes in    *)
(* exact rationals.  A grid spacing is a fraction [num, den]; grid-line    *)
(* coordinates produced with spacing num/den are kept as numerators over   *)
(* den (units of 1/den degree).  A data value or a bin mean is a reduced   *)
(* fraction [num, den]; NaN is the fraction 0/0.                           *)
(*                                                                         *)
(* Python's None is the empty tuple; an optional argument that is present  *)
(* is a one-element tuple.                                                 *)
(***************************************************************************)
EXTENDS Integers, Sequences, FiniteSets, TLC

VARIABLES
    pc,                                 \* "import" while the module body runs, "ready" after
    _CARTOPY_INSTALLED,                 \* module global, plot.py:6,12
    _CARTOPY_NOT_INSTALLED_EXCEPTION,   \* module global, plot.py:7,13
    stderr,                             \* what has been written to sys.stderr
    figures,                            \* number of figures pyplot has created and holds
    files,                              \* paths written by plt.savefig
    request,                            \* the call the caller makes: function and arguments
    tie,                                \* which of equally near samples scipy's search returns
    last                                \* arguments, locals and outcome of the latest call

vars == <<pc, _CARTOPY_INSTALLED, _CARTOPY_NOT_INSTALLED_EXCEPTION, stderr,
          figures, files, request, tie, last>>

----------------------------------------------------------------------------
(* Bounds of the model *)

MaxSamples == 2      \* at most this many (lon, lat, value) samples in a call
MaxValue == 2        \* sample values are 1..MaxValue
MaxFigures == 2      \* calls are taken while pyplot holds fewer figures than this
MaxMessages == 2     \* calls are taken while stderr holds fewer messages than this

(* Program constants *)

DefaultSteps == 200  \* delta = max_range / 200

----------------------------------------------------------------------------
(* Values *)

None == <<>>
Some(x) == <<x>>

\* the exception "import cartopy.crs" raises when cartopy is absent
CartopyImportError == [type |-> "ImportError", message |-> "No module named 'cartopy'"]

\* an array: the function f over 1..n as an explicit sequence of its values
AsArray(f) == f \o <<>>

Max(a, b) == IF a >= b THEN a ELSE b

RECURSIVE Gcd(_, _)
Gcd(a, b) == IF b = 0 THEN a ELSE Gcd(b, a % b)

NaN == [num |-> 0, den |-> 0]
Value(v) == [num |-> v, den |-> 1]

\* a / b for a >= 0 and b > 0, as a reduced fraction
Fraction(a, b) == LET g == Gcd(a, b) IN [num |-> a \div g, den |-> b \div g]

\* sum / n; NaN when n = 0 (the mean of no values)
Mean(sum, n) == IF n = 0 THEN NaN ELSE Fraction(sum, n)

----------------------------------------------------------------------------
(* layer_grid: validation *)

ExtentLenError == [type |-> "ValueError", message |-> "extent must contain four values"]

LonError(extent) ==
    [type |-> "ValueError",
     message |-> "maximum longitude must be more than minimum; have"
                 \o "min = " \o ToString(extent[1]) \o " and max = " \o ToString(extent[2])]

LatError(extent) ==
    [type |-> "ValueError",
     message |-> "maximum latitude must be more than minimum; have"
                 \o "min = " \o ToString(extent[3]) \o " and max = " \o ToString(extent[4])]

DeltaError == [type |-> "ValueError", message |-> "delta must be more than 0"]

MethodError(method) ==
    [type |-> "ValueError", message |-> "unsupported method '" \o method \o "'"]

\* CheckExtent with "<" where the code has "<=": equal bounds pass
CheckExtent_Strict(extent) ==
    IF Len(extent) # 4 THEN ExtentLenError
    ELSE IF extent[2] < extent[1] THEN LonError(extent)
    ELSE IF extent[4] < extent[3] THEN LatError(extent)
    ELSE None

\* the if / elif / elif chain on extent: the exception raised, or None
CheckExtent(extent) ==
    IF Len(extent) # 4 THEN ExtentLenError
    ELSE IF extent[2] <= extent[1] THEN LonError(extent)
    ELSE IF extent[4] <= extent[3] THEN LatError(extent)
    ELSE None

\* delta after the "if delta is None ... elif delta <= 0" statement, as a fraction
DefaultDelta(extent) ==
    LET lonrange == extent[2] - extent[1]
        latrange == extent[4] - extent[3]
        max_range == Max(lonrange, latrange)
    IN  Fraction(max_range, DefaultSteps)

CheckDelta(delta) ==
    IF delta # None /\ delta[1] <= 0 THEN DeltaError ELSE None

ResolveDelta(delta, extent) ==
    IF delta = None THEN DefaultDelta(extent) ELSE [num |-> delta[1], den |-> 1]

----------------------------------------------------------------------------
(* layer_grid: grid construction *)

\* Arange with the stop value included when it is a whole number of steps away
Arange_Closed(start, stop, d) ==
    LET span == (stop - start) * d.den
        n == IF span < 0 THEN 0 ELSE span \div d.num + 1
    IN  AsArray([i \in 1..n |-> start * d.den + (i - 1) * d.num])

\* np.arange(start, stop, step) for step = d.num / d.den > 0: ceil((stop - start) / step)
\* values start, start + step, ...; returned as numerators over d.den
Arange(start, stop, d) ==
    LET span == (stop - start) * d.den
        n == IF span <= 0 THEN 0 ELSE (span + d.num - 1) \div d.num
    IN  AsArray([i \in 1..n |-> start * d.den + (i - 1) * d.num])

\* np.meshgrid(grid_lons, grid_lats): two arrays of shape (len(grid_lats), len(grid_lons))
MeshLon(grid_lons, grid_lats) ==
    [r \in 1..Len(grid_lats) |-> [c \in 1..Len(grid_lons) |-> grid_lons[c]]]
MeshLat(grid_lons, grid_lats) ==
    [r \in 1..Len(grid_lats) |-> [c \in 1..Len(grid_lons) |-> grid_lats[r]]]

\* Dist2 with the longitude difference taken around the globe
Dist2_Wrapped(lon, lat, i, x, y, den) ==
    LET dx == IF lon[i] * den >= x THEN lon[i] * den - x ELSE x - lon[i] * den
        wx == IF dx <= 360 * den - dx THEN dx ELSE 360 * den - dx
    IN  wx * wx + (lat[i] * den - y) * (lat[i] * den - y)

\* squared Euclidean distance, in units of 1/den degree, from sample i to (x, y)
Dist2(lon, lat, i, x, y, den) ==
    (lon[i] * den - x) * (lon[i] * den - x) + (lat[i] * den - y) * (lat[i] * den - y)

\* the nearest-neighbour query: scan the samples keeping the closest one found;
\* order says which of several equally close samples is kept
RECURSIVE Query(_, _, _, _, _, _, _, _)
Query(lon, lat, x, y, den, order, i, best) ==
    IF i > Len(lon) THEN best
    ELSE LET di == Dist2(lon, lat, i, x, y, den)
             db == Dist2(lon, lat, best, x, y, den)
             closer == IF order = "first" THEN di < db ELSE di <= db
         IN  Query(lon, lat, x, y, den, order, i + 1, IF closer THEN i ELSE best)

\* scipy.interpolate.griddata((lon, lat), values, (grid_lon, grid_lat), method="nearest")
Griddata(lon, lat, values, grid_lon, grid_lat, den, order) ==
    [r \in 1..Len(grid_lon) |->
        [c \in 1..Len(grid_lon[r]) |->
            Value(values[Query(lon, lat, grid_lon[r][c], grid_lat[r][c], den, order, 2, 1)])]]

\* np.digitize(x, edges): the number of edges <= x
Digitize(x, edges) == Cardinality({k \in 1..Len(edges) : edges[k] <= x})

\* BinNumber without the move of a value on the last edge into the last bin
BinNumber_OpenLast(x, edges) == Digitize(x, edges)

\* the bin of x among the edges: 1..Len(edges)-1 inside, 0 and Len(edges) outside;
\* a value on the last edge is moved from the outlier bin to the last bin
BinNumber(x, edges) ==
    LET d == Digitize(x, edges)
    IN  IF Len(edges) > 0 /\ x = edges[Len(edges)] THEN d - 1 ELSE d

\* the mean of the values of the samples whose bin numbers are (i, j)
BinMean(values, xbin, ybin, i, j) ==
    LET RECURSIVE Acc(_, _, _)
        Acc(k, sum, n) ==
            IF k > Len(values) THEN Mean(sum, n)
            ELSE IF xbin[k] = i /\ ybin[k] = j THEN Acc(k + 1, sum + values[k], n + 1)
            ELSE Acc(k + 1, sum, n)
    IN  Acc(1, 0, 0)

\* scipy.stats.binned_statistic_2d(lon, lat, values, bins=[xedges, yedges]).statistic:
\* every sample gets its bin number on each axis; the result has shape
\* (len(xedges) - 1, len(yedges) - 1), the mean per bin, NaN for an empty bin
BinnedStatistic2d(lon, lat, values, xedges, yedges, den) ==
    LET xbin == AsArray([k \in 1..Len(lon) |-> BinNumber(lon[k] * den, xedges)])
        ybin == AsArray([k \in 1..Len(lat) |-> BinNumber(lat[k] * den, yedges)])
    IN  [i \in 1..(Len(xedges) - 1) |->
            [j \in 1..(Len(yedges) - 1) |-> BinMean(values, xbin, ybin, i, j)]]

\* np.transpose of a 2-D array with ncols columns
Transpose(a, ncols) == [j \in 1..ncols |-> [i \in 1..Len(a) |-> a[i][j]]]

\* Flip left out: rows stay south to north
Flip_Missing(grid) == grid

\* np.flip(grid, axis=0)
Flip(grid) == [r \in 1..Len(grid) |-> grid[Len(grid) + 1 - r]]

----------------------------------------------------------------------------
(* layer_grid *)

NoCall ==
    [fn |-> "none", args |-> None,
     raised |-> None,        \* the exception the call ended with, or None
     returned |-> FALSE,     \* the call returned its (fig, ax) pair
     fig |-> FALSE,          \* plt.subplots created a figure during the call
     lines |-> FALSE,        \* grid_lons and grid_lats were generated
     delta |-> None,         \* the local delta after plot.py:83-89
     grid_lons |-> None, grid_lats |-> None,
     shown |-> FALSE,        \* ax.imshow was called
     grid |-> None,          \* the array handed to ax.imshow
     ax_title |-> "",        \* ax.set_title
     xlabel |-> "",          \* ax.set_xlabel
     cbar_label |-> "",      \* the label of the colour bar
     coast |-> FALSE,        \* ax.coastlines was called
     xlim |-> None,          \* ax.set_xlim
     saved |-> None]         \* the paths this call handed to plt.savefig

\* RequireCartopy without the check
RequireCartopy_Unchecked(installed, exception) == None

\* plot.py:60-62: the exception raised when cartopy is missing, or None
RequireCartopy(installed, exception) == IF ~installed THEN exception ELSE None

\* plot.py:95-105: the grid for the method, before the flip
Interpolate(lon, lat, values, grid_lons, grid_lats, den, method, order) ==
    IF method = "nearest"
    THEN Griddata(lon, lat, values, MeshLon(grid_lons, grid_lats),
                  MeshLat(grid_lons, grid_lats), den, order)
    ELSE Transpose(BinnedStatistic2d(lon, lat, values, grid_lons, grid_lats, den),
                   Len(grid_lats) - 1)

\* Supported with a plain "else" for the mean branch: every other method is "mean"
Supported_ElseMean(method) == TRUE

Supported(method) == method = "nearest" \/ method = "mean"

\* plot.py:64-131: the call once cartopy is known to be present
LayerGridBody(call, order) ==
    LET lon == call.args.lon
        lat == call.args.lat
        radius == call.args.radius
        values == call.args.values
        delta == call.args.delta
        extent == call.args.extent
        label == call.args.label
        method == call.args.method
        coastlines == call.args.coastlines
        created == [call EXCEPT !.fig = TRUE]           \* plt.subplots, line 64
        d == ResolveDelta(delta, extent)
        grid_lons == Arange(extent[1], extent[2], d)
        grid_lats == Arange(extent[3], extent[4], d)
        gridded == [created EXCEPT !.delta = d, !.lines = TRUE,
                                   !.grid_lons = grid_lons, !.grid_lats = grid_lats]
    IN  IF CheckExtent(extent) # None
        THEN [created EXCEPT !.raised = CheckExtent(extent)]
        ELSE IF CheckDelta(delta) # None
        THEN [created EXCEPT !.raised = CheckDelta(delta)]
        ELSE IF ~Supported(method)
        THEN [gridded EXCEPT !.raised = MethodError(method)]
        ELSE [gridded EXCEPT
                !.grid = Flip(Interpolate(lon, lat, values, grid_lons, grid_lats,
                                          d.den, method, order)),
                !.shown = TRUE,
                !.ax_title = "Radius " \o ToString(radius) \o " km",
                !.xlabel = IF label = None THEN "None" ELSE label[1],
                !.cbar_label = IF label = None THEN "" ELSE label[1],
                !.coast = coastlines,
                !.returned = TRUE]

\* one call of layer_grid; order is the tie order of the nearest-neighbour search
layer_grid(lon, lat, radius, values, delta, extent, label, method, coastlines, order) ==
    LET call == [NoCall EXCEPT !.fn = "layer_grid",
                    !.args = [lon |-> lon, lat |-> lat, radius |-> radius,
                              values |-> values, delta |-> delta, extent |-> extent,
                              label |-> label, method |-> method,
                              coastlines |-> coastlines]]
        missing == RequireCartopy(_CARTOPY_INSTALLED, _CARTOPY_NOT_INSTALLED_EXCEPTION)
    IN  /\ IF missing # None
           THEN /\ stderr' = Append(stderr, "layer_grid require cartopy to be installed")
                /\ last' = [call EXCEPT !.raised = missing]
                /\ UNCHANGED figures
           ELSE /\ last' = LayerGridBody(call, order)
                /\ figures' = figures + 1
                /\ UNCHANGED stderr
        /\ UNCHANGED <<pc, _CARTOPY_INSTALLED, _CARTOPY_NOT_INSTALLED_EXCEPTION, files,
                       request, tie>>

----------------------------------------------------------------------------
(* spectral_heterogeneity *)

\* plot.py:174-177
SpectrumTitle(title) ==
    IF title = None THEN "Spherical Harmonic Power Spectrum"
    ELSE "Spherical Harmonic Power Spectrum \n for " \o title[1] \o " field"

\* plot.py:183-188: the path handed to plt.savefig
SavePath(savepath, title) ==
    LET dir == IF savepath = None THEN "." ELSE savepath[1]
        name == IF title = None THEN "" ELSE title[1]
    IN  dir \o "/powers_" \o name \o ".pdf"

\* Saved without the test of saveplot
Saved_Always(saveplot, savepath, title) == {SavePath(savepath, title)}

\* the files written by the call: plot.py:182-189
Saved(saveplot, savepath, title) ==
    IF saveplot THEN {SavePath(savepath, title)} ELSE {}

\* one call of spectral_heterogeneity, on a spectrum and layer range that np.log and
\* contourf accept (the plotted data itself is not part of the model)
spectral_heterogeneity(title, lmin, lmax, saveplot, savepath) ==
    /\ figures' = figures + 1
    /\ files' = files \cup Saved(saveplot, savepath, title)
    /\ last' = [NoCall EXCEPT !.fn = "spectral_heterogeneity",
                    !.args = [title |-> title, lmin |-> lmin, lmax |-> lmax,
                              saveplot |-> saveplot, savepath |-> savepath],
                    !.fig = TRUE, !.xlabel = "L", !.xlim = <<lmin - 1, lmax + 1>>,
                    !.ax_title = SpectrumTitle(title), !.cbar_label = "ln(Power)",
                    !.saved = Saved(saveplot, savepath, title),
                    !.returned = TRUE]
    /\ UNCHANGED <<pc, _CARTOPY_INSTALLED, _CARTOPY_NOT_INSTALLED_EXCEPTION, stderr,
                   request, tie>>

----------------------------------------------------------------------------
(* module load *)

\* plot.py:9-13: "import cartopy.crs" succeeds, or raises ImportError, which is caught
ImportCartopy(ok) ==
    /\ pc = "import"
    /\ pc' = "ready"
    /\ IF ok
       THEN UNCHANGED <<_CARTOPY_INSTALLED, _CARTOPY_NOT_INSTALLED_EXCEPTION>>
       ELSE /\ _CARTOPY_INSTALLED' = FALSE
            /\ _CARTOPY_NOT_INSTALLED_EXCEPTION' = CartopyImportError
    /\ UNCHANGED <<stderr, figures, files, request, tie, last>>

----------------------------------------------------------------------------
(* Inputs *)

\* the three parallel sequences lon, lat, values of a sequence of samples
Lons(s) == AsArray([i \in 1..Len(s) |-> s[i].lon])
Lats(s) == AsArray([i \in 1..Len(s) |-> s[i].lat])
Values(s) == AsArray([i \in 1..Len(s) |-> s[i].value])

SampleLons == {-100, 120, 170}
SampleLats == {0, 30}
Points == [lon : SampleLons, lat : SampleLats, value : 1..MaxValue]
SampleSets == UNION {[1..n -> Points] : n \in 1..MaxSamples}

\* two fixed sample sets, for the calls that leave delta out (a grid of 200 columns)
FewSamples ==
    { <<[lon |-> -100, lat |-> 0, value |-> 1]>>,
      <<[lon |-> 170, lat |-> 30, value |-> 2], [lon |-> -100, lat |-> 0, value |-> 1]>> }

ValidExtents == { <<-180, 180, -90, 90>>, <<0, 110, -90, 90>> }
Extents ==
    ValidExtents \cup
    { <<0, 0, -90, 90>>, <<180, -180, -90, 90>>, <<-180, 180, 90, 90>>,
      <<-180, 180, 90, -90>>, <<-180, 180, -90>>, <<-180, 180, -90, 90, 0>> }

\* spacings that leave at least two grid lines on each axis of every valid extent
\* (binned_statistic_2d needs two edges to form a bin)
Spacings == {Some(60), Some(90)}
Deltas == {Some(-90), Some(0)} \cup Spacings
GridMethods == {"nearest", "mean"}
Methods == GridMethods \cup {"linear"}
Orders == {"first", "last"}

Titles == {None, Some(""), Some("Temperature")}
SavePaths == {None, Some("out")}

\* radius, label and coastlines of a call
Decorations ==
    { [radius |-> 3480, label |-> None, coastlines |-> TRUE],
      [radius |-> 6370, label |-> Some("Temperature / K"), coastlines |-> FALSE] }
Plain == [radius |-> 3480, label |-> None, coastlines |-> TRUE]

\* lmin and lmax of a call
Degrees == { <<1, 20>>, <<2, 10>> }

LayerGridRequest(s, delta, extent, method, deco) ==
    [fn |-> "layer_grid", lon |-> Lons(s), lat |-> Lats(s), radius |-> deco.radius,
     values |-> Values(s), delta |-> delta, extent |-> extent, label |-> deco.label,
     method |-> method, coastlines |-> deco.coastlines]

\* calls of either function, delta given or left out, on a few samples
Requests ==
    { LayerGridRequest(s, delta, extent, method, deco) :
        s \in FewSamples, delta \in Deltas \cup {None}, extent \in Extents,
        method \in Methods, deco \in Decorations }
    \cup
    { [fn |-> "spectral_heterogeneity", title |-> title, lmin |-> l[1], lmax |-> l[2],
       saveplot |-> saveplot, savepath |-> savepath] :
        title \in Titles, l \in Degrees, saveplot \in BOOLEAN, savepath \in SavePaths }

\* calls of layer_grid that pass validation, on every sample set within the bounds
GridRequests ==
    { LayerGridRequest(s, delta, extent, method, Plain) :
        s \in SampleSets, delta \in Spacings, extent \in ValidExtents,
        method \in GridMethods }

----------------------------------------------------------------------------
(* Specifications *)

\* the module is about to be imported by a caller that will make the call request
Init ==
    /\ pc = "import"
    /\ _CARTOPY_INSTALLED = TRUE
    /\ _CARTOPY_NOT_INSTALLED_EXCEPTION = None
    /\ stderr = <<>>
    /\ figures = 0
    /\ files = {}
    /\ request \in Requests
    /\ tie \in Orders
    /\ last = NoCall

\* the module is loaded, and the bounds of the model leave room for one more call
CanCall == pc = "ready" /\ figures < MaxFigures /\ Len(stderr) < MaxMessages

Import == \E ok \in BOOLEAN : ImportCartopy(ok)

LayerGrid ==
    /\ CanCall
    /\ request.fn = "layer_grid"
    /\ layer_grid(request.lon, request.lat, request.radius, request.values,
                  request.delta, request.extent, request.label, request.method,
                  request.coastlines, tie)

SpectralHeterogeneity ==
    /\ CanCall
    /\ request.fn = "spectral_heterogeneity"
    /\ spectral_heterogeneity(request.title, request.lmin, request.lmax,
                              request.saveplot, request.savepath)

Next == Import \/ LayerGrid \/ SpectralHeterogeneity

Spec == Init /\ [][Next]_vars

\* the gridding alone: cartopy was imported, the caller calls layer_grid with a spacing
InitGrid ==
    /\ pc = "ready"
    /\ _CARTOPY_INSTALLED = TRUE
    /\ _CARTOPY_NOT_INSTALLED_EXCEPTION = None
    /\ stderr = <<>>
    /\ figures = 0
    /\ files = {}
    /\ request \in GridRequests
    /\ tie \in Orders
    /\ last = NoCall

NextGrid == LayerGrid

SpecGrid == InitGrid /\ [][NextGrid]_vars

----------------------------------------------------------------------------
(* Properties *)

Args == last.args
IsLayerGrid == last.fn = "layer_grid"
IsSpectrum == last.fn = "spectral_heterogeneity"
RaisedValueError == last.raised # None /\ last.raised.type = "ValueError"
Diagnostic == "layer_grid require cartopy to be installed"

ValidExtent(extent) == Len(extent) = 4 /\ extent[1] < extent[2] /\ extent[3] < extent[4]
ValidDelta(delta) == delta = None \/ delta[1] > 0

\* ceil(range / (d.num / d.den)) for range > 0
Steps(range, d) ==
    CHOOSE n \in 0..(range * d.den) :
        n * d.num >= range * d.den /\ (n - 1) * d.num < range * d.den

Rows == Len(last.grid)
Cols(r) == Len(last.grid[r])

\* longitude of column c and latitude of the grid line with index j (1 = southernmost),
\* in units of 1/den degree
LonOf(c) == Args.extent[1] * last.delta.den + (c - 1) * last.delta.num
LatOf(j) == Args.extent[3] * last.delta.den + (j - 1) * last.delta.num

SqDist(k, x, y) ==
    LET dx == Args.lon[k] * last.delta.den - x
        dy == Args.lat[k] * last.delta.den - y
    IN  dx * dx + dy * dy

\* cell (r, c) holds the value of a sample at least as near to (x, y) as every sample
CellIsNearest(r, c, x, y) ==
    \E k \in 1..Len(Args.values) :
        /\ last.grid[r][c] = Value(Args.values[k])
        /\ \A m \in 1..Len(Args.values) : SqDist(k, x, y) <= SqDist(m, x, y)

\* v lies in the bin [lo, hi), or on hi when the bin is the last of its axis
InBin(v, lo, hi, isLast) == lo <= v /\ (v < hi \/ (isLast /\ v = hi))

\* the samples in the bin between longitude lines i, i+1 and latitude lines j, j+1
Members(i, j) ==
    { k \in 1..Len(Args.values) :
        /\ InBin(Args.lon[k] * last.delta.den, LonOf(i), LonOf(i + 1),
                 i + 1 = Len(last.grid_lons))
        /\ InBin(Args.lat[k] * last.delta.den, LatOf(j), LatOf(j + 1),
                 j + 1 = Len(last.grid_lats)) }

RECURSIVE SumOf(_)
SumOf(S) == IF S = {} THEN 0 ELSE LET k == CHOOSE k \in S : TRUE
                                  IN  Args.values[k] + SumOf(S \ {k})

\* cell (r, c) holds the arithmetic mean of the samples of bin (i, j), NaN when none
CellIsBinMean(r, c, i, j) ==
    LET cell == last.grid[r][c]
        M == Members(i, j)
    IN  /\ M = {} => cell = NaN
        /\ M # {} => cell.den > 0 /\ cell.num * Cardinality(M) = SumOf(M) * cell.den
        /\ Cardinality(M) = 1 => \E k \in M : cell = Value(Args.values[k])

\* C1: for every valid extent, every delta > 0 and both methods, the grid handed to
\* the renderer has ceil((maxlat-minlat)/delta) rows and ceil((maxlon-minlon)/delta)
\* columns.
C1_GridShape ==
    (IsLayerGrid /\ last.shown) =>
        /\ Rows = Steps(Args.extent[4] - Args.extent[3], last.delta)
        /\ \A r \in 1..Rows : Cols(r) = Steps(Args.extent[2] - Args.extent[1], last.delta)

\* C2 as stated: a call with a malformed extent or a delta <= 0 ends with a
\* ValueError whatever the state of the module, and a call that leaves delta out on
\* a valid extent derives delta = max(lon-range, lat-range) / 200 without a delta error.
C2_Original ==
    IsLayerGrid =>
        /\ (~ValidExtent(Args.extent) \/ ~ValidDelta(Args.delta)) => RaisedValueError
        /\ (ValidExtent(Args.extent) /\ Args.delta = None) =>
              /\ last.delta # None
              /\ last.delta.num * 200 =
                    Max(Args.extent[2] - Args.extent[1], Args.extent[4] - Args.extent[3])
                    * last.delta.den
              /\ last.raised # DeltaError

\* C2 as amended: when cartopy was imported at load, a call with a malformed extent
\* or a delta <= 0 ends with a ValueError, and a call that leaves delta out on a valid
\* extent derives delta = max(lon-range, lat-range) / 200 without a delta error.
C2_Validation ==
    (IsLayerGrid /\ _CARTOPY_INSTALLED) =>
        /\ (~ValidExtent(Args.extent) \/ ~ValidDelta(Args.delta)) =>
              /\ RaisedValueError
              /\ ~last.returned
        /\ (ValidExtent(Args.extent) /\ Args.delta = None) =>
              /\ last.delta # None
              /\ last.delta.num * 200 =
                    Max(Args.extent[2] - Args.extent[1], Args.extent[4] - Args.extent[3])
                    * last.delta.den
              /\ last.raised # DeltaError

C2_Witness ==
    /\ IsLayerGrid /\ _CARTOPY_INSTALLED
    /\ ValidExtent(Args.extent) /\ Args.delta = Some(0)
    /\ last.raised = DeltaError

\* C3 as stated: a call with a method other than "nearest" and "mean" raises a
\* ValueError whose message names the method, and returns no (fig, ax) pair.
C3_Original ==
    (IsLayerGrid /\ Args.method \notin {"nearest", "mean"}) =>
        /\ RaisedValueError
        /\ last.raised.message = "unsupported method '" \o Args.method \o "'"
        /\ ~last.returned

\* C3 as amended: such a call never returns a (fig, ax) pair, and when cartopy was
\* imported and the extent and delta are valid it raises the ValueError that names
\* the method.
C3_UnsupportedMethod ==
    (IsLayerGrid /\ Args.method \notin {"nearest", "mean"}) =>
        /\ ~last.returned
        /\ (_CARTOPY_INSTALLED /\ ValidExtent(Args.extent) /\ ValidDelta(Args.delta)) =>
              /\ RaisedValueError
              /\ last.raised.message = "unsupported method '" \o Args.method \o "'"

C3_Witness ==
    /\ IsLayerGrid /\ _CARTOPY_INSTALLED /\ Args.method = "linear"
    /\ ValidExtent(Args.extent) /\ ValidDelta(Args.delta)
    /\ last.raised = [type |-> "ValueError", message |-> "unsupported method 'linear'"]

\* C4: a failed import of cartopy is stored and the module still loads; then every
\* call of layer_grid writes the diagnostic to stderr and raises the stored exception,
\* while spectral_heterogeneity never raises it; after a successful import no call
\* raises it and nothing is written to stderr.
C4_MissingCartopy ==
    [][ /\ (pc = "import" /\ ~_CARTOPY_INSTALLED') =>
              /\ pc' = "ready"
              /\ _CARTOPY_NOT_INSTALLED_EXCEPTION' # None
              /\ _CARTOPY_NOT_INSTALLED_EXCEPTION'.type = "ImportError"
        /\ (pc = "ready" /\ ~_CARTOPY_INSTALLED /\ request.fn = "layer_grid") =>
              /\ stderr' = Append(stderr, Diagnostic)
              /\ last'.raised = _CARTOPY_NOT_INSTALLED_EXCEPTION
              /\ last'.raised # None
              /\ ~last'.returned
        /\ (pc = "ready" /\ request.fn = "spectral_heterogeneity") =>
              last'.raised = None /\ last'.returned /\ stderr' = stderr
        /\ (pc = "ready" /\ _CARTOPY_INSTALLED) =>
              /\ stderr' = stderr
              /\ last'.raised = None \/ last'.raised.type # "ImportError"
        /\ pc = "ready" =>
              /\ _CARTOPY_INSTALLED' = _CARTOPY_INSTALLED
              /\ _CARTOPY_NOT_INSTALLED_EXCEPTION' = _CARTOPY_NOT_INSTALLED_EXCEPTION
      ]_vars

C4_Witness ==
    /\ ~_CARTOPY_INSTALLED /\ IsLayerGrid
    /\ last.raised = CartopyImportError
    /\ stderr = <<Diagnostic, Diagnostic>>

\* C5: when layer_grid raises a ValueError (extent, delta or method), no figure has
\* been created, no grid lines have been generated and nothing has been drawn.
C5_NoEffectBeforeError ==
    (IsLayerGrid /\ RaisedValueError) => ~last.fig /\ ~last.lines /\ ~last.shown

\* C6: with method "mean", each cell is the bin between two consecutive grid lines on
\* each axis (half-open, the last bin of an axis closed above) and holds the arithmetic
\* mean of the samples in that bin: the value itself for one sample, NaN for none.
C6_BinnedMean ==
    (IsLayerGrid /\ last.shown /\ Args.method = "mean") =>
        /\ Rows = Len(last.grid_lats) - 1
        /\ \A r \in 1..Rows :
              /\ Cols(r) = Len(last.grid_lons) - 1
              /\ \A c \in 1..Cols(r) : CellIsBinMean(r, c, c, Rows + 1 - r)

\* two samples share the last bin of both axes, one of them on both of its upper
\* edges (longitude 120, latitude 30); the bin at the other corner is empty
C6_Witness ==
    /\ IsLayerGrid /\ last.shown /\ Args.method = "mean"
    /\ Args.extent = <<-180, 180, -90, 90>> /\ Args.delta = Some(60)
    /\ Args.lon = <<120, 120>> /\ Args.lat = <<30, 0>> /\ Args.values = <<1, 2>>
    /\ last.grid[1][5] = [num |-> 3, den |-> 2]
    /\ last.grid[2][1] = NaN

\* C7: with method "nearest", every cell holds the value of a sample that minimises
\* the Euclidean distance in (lon, lat) to the cell's grid point
\* (minlon + c*delta, minlat + r*delta before the flip); longitudes do not wrap.
C7_Nearest ==
    (IsLayerGrid /\ last.shown /\ Args.method = "nearest") =>
        /\ Rows = Len(last.grid_lats)
        /\ \A r \in 1..Rows :
              /\ Cols(r) = Len(last.grid_lons)
              /\ \A c \in 1..Cols(r) : CellIsNearest(r, c, LonOf(c), LatOf(Rows + 1 - r))

\* the grid point (-180, 0) takes the sample at longitude -100, 80 degrees away, not
\* the sample at longitude 170, 10 degrees away across the date line
C7_Witness ==
    /\ IsLayerGrid /\ last.shown /\ Args.method = "nearest"
    /\ Args.extent = <<-180, 180, -90, 90>> /\ Args.delta = Some(90)
    /\ Args.lon = <<170, -100>> /\ Args.lat = <<0, 0>> /\ Args.values = <<2, 1>>
    /\ last.grid[1][1] = Value(1)

\* C8: rows are latitudes and columns longitudes; the first row is the northernmost
\* latitude step, the last row the minimum latitude, the first column the minimum
\* longitude; for "mean" the histogram is transposed before the flip.
C8_Orientation ==
    (IsLayerGrid /\ last.shown) =>
        LET nlat == Len(last.grid_lats)
            nlon == Len(last.grid_lons)
            minlon == Args.extent[1] * last.delta.den
            minlat == Args.extent[3] * last.delta.den
            maxlat == Args.extent[4] * last.delta.den
            north == last.grid_lats[nlat]
        IN  /\ last.grid_lons[1] = minlon /\ last.grid_lats[1] = minlat
            /\ north < maxlat /\ maxlat <= north + last.delta.num
            /\ Args.method = "nearest" =>
                  /\ Rows = nlat
                  /\ \A c \in 1..nlon :
                        /\ CellIsNearest(1, c, last.grid_lons[c], north)
                        /\ CellIsNearest(Rows, c, last.grid_lons[c], minlat)
                  /\ \A r \in 1..Rows : CellIsNearest(r, 1, minlon, last.grid_lats[nlat + 1 - r])
            /\ Args.method = "mean" =>
                  /\ Rows = nlat - 1
                  /\ \A c \in 1..(nlon - 1) :
                        /\ CellIsBinMean(1, c, c, nlat - 1)
                        /\ CellIsBinMean(Rows, c, c, 1)
                  /\ \A r \in 1..Rows : CellIsBinMean(r, 1, 1, nlat - r)

\* the sample at latitude 30 decides the first row, the sample at latitude 0 the last
C8_Witness ==
    /\ IsLayerGrid /\ last.shown /\ Args.method = "nearest"
    /\ Args.extent = <<-180, 180, -90, 90>> /\ Args.delta = Some(60)
    /\ Args.lon = <<-100, -100>> /\ Args.lat = <<30, 0>> /\ Args.values = <<2, 1>>
    /\ last.grid[1][1] = Value(2) /\ last.grid[3][1] = Value(1)

\* C9 as stated: for extent (-180, 180, -90, 90) and delta 90, grid_lons is
\* [-180, -90, 0, 90], grid_lats is [-90, 0, 90] and the grid handed to the renderer
\* has shape (3, 4).
C9_Original ==
    (IsLayerGrid /\ last.shown /\ Args.extent = <<-180, 180, -90, 90>>
        /\ Args.delta = Some(90)) =>
        /\ last.grid_lons = <<-180, -90, 0, 90>>
        /\ last.grid_lats = <<-90, 0, 90>>
        /\ Rows = 3
        /\ \A r \in 1..Rows : Cols(r) = 4

\* C9 as amended: for that extent and delta, grid_lons is [-180, -90, 0, 90] and
\* grid_lats is [-90, 0] (the range is half-open: 90 is left out); the grid handed to
\* the renderer has shape (2, 4) with "nearest" and (1, 3) with "mean".
C9_Example ==
    (IsLayerGrid /\ last.shown /\ Args.extent = <<-180, 180, -90, 90>>
        /\ Args.delta = Some(90)) =>
        /\ last.grid_lons = <<-180, -90, 0, 90>>
        /\ last.grid_lats = <<-90, 0>>
        /\ Args.method = "nearest" => Rows = 2 /\ \A r \in 1..Rows : Cols(r) = 4
        /\ Args.method = "mean" => Rows = 1 /\ \A r \in 1..Rows : Cols(r) = 3

C9_Witness ==
    /\ IsLayerGrid /\ last.shown /\ Args.method = "nearest"
    /\ Args.extent = <<-180, 180, -90, 90>> /\ Args.delta = Some(90)
    /\ Len(last.grid) = 2 /\ Len(last.grid[1]) = 4

\* C10: spectral_heterogeneity returns its (fig, ax) pair and writes a file exactly
\* when saveplot is set: one PDF at <savepath>/powers_<title>.pdf, with "." for a
\* missing savepath and the empty string for a missing title.
C10_SavedFile ==
    IsSpectrum =>
        LET dir == IF Args.savepath = None THEN "." ELSE Args.savepath[1]
            path == IF Args.title = None \/ Args.title = Some("")
                    THEN dir \o "/powers_.pdf"
                    ELSE dir \o "/powers_Temperature.pdf"
        IN  /\ last.returned /\ last.raised = None
            /\ Args.saveplot => last.saved = {path} /\ files = {path}
            /\ ~Args.saveplot => last.saved = {} /\ files = {}

C10_Witness ==
    /\ IsSpectrum /\ Args.saveplot /\ Args.title = None /\ Args.savepath = None
    /\ files = {"./powers_.pdf"}

====
